---- MODULE Spec2Model ----
(***************************************************************************)
(* EV Charging Assistant (src/app.py): the station fetch, the ranking,     *)
(* the chat context, the chat-completion call and the session state that   *)
(* main() keeps between script runs.                                       *)
(*                                                                         *)
(* Python dicts are functions whose DOMAIN is the set of keys present, so  *)
(* a missing key is a key outside DOMAIN.  Every object of the directory   *)
(* service carries an "ID" key, which keeps every dict non-empty.  Text is *)
(* a TLA+ string; "\n" is the line break.  A distance is an integer number *)
(* of quarter kilometres, so that every value is an exact binary float and *)
(* the one-decimal formatting rounds as Python rounds it.                  *)
(***************************************************************************)
EXTENDS Integers, Sequences, FiniteSets, TLC

VARIABLES
    session_state,  \* st.session_state: the keys present and their values
    action,         \* the handler the last script run executed
    response,       \* what the external service answered in that run
    requests,       \* the outbound requests that run issued, in order
    notices,        \* the st.error notices that run displayed
    returned,       \* what the pipeline function called in that run returned
    raised,         \* an exception escaped the handler in that run
    call,           \* the arguments of a recommend_stations call made on its own
    chats           \* how many chat messages the session has handled

vars == <<session_state, action, response, requests, notices, returned, raised, call, chats>>

(* ------------------------------ bounds --------------------------------- *)

MaxStations == 4

MaxConnections == 2

MaxChats == 2

(* --------------------------- dict helpers ------------------------------ *)

EmptyDict == [k \in {} |-> TRUE]

\* d.get(k, default)
Get(d, k, default) == IF k \in DOMAIN d THEN d[k] ELSE default

\* d[k] raises KeyError on a missing key; d.get(k, ...) never raises.
SubscriptRaises(d, k) == k \notin DOMAIN d

GetRaises(d, k) == FALSE

\* The dicts holding key k with a value of S, and the dict without it.
Optional(k, S) == {EmptyDict} \cup {k :> v : v \in S}

Min(a, b) == IF a <= b THEN a ELSE b

(* ----------------------------- text ------------------------------------ *)

\* 'sub in s'
Contains(sub, s) ==
    \E i \in 1..(Len(s) - Len(sub) + 1) : SubSeq(s, i, i + Len(sub) - 1) = sub

StartsWith(s, prefix) ==
    Len(prefix) <= Len(s) /\ SubSeq(s, 1, Len(prefix)) = prefix

Digit(d) == SubSeq("0123456789", d + 1, d + 1)

RECURSIVE IntStr(_)
IntStr(n) == IF n < 10 THEN Digit(n) ELSE IntStr(n \div 10) \o Digit(n % 10)

(* ---------------------------- distances -------------------------------- *)

\* Distance values are counted in quarters of a kilometre.
UnitsPerKm == 4

Km(n) == n * UnitsPerKm

DefaultDistanceKm == 999

NearKm == 5

MidKm == 10

\* f"{distance:.1f}": x.25 and x.75 are exact ties, rounded to the even digit.
FormatDistance(q) ==
    IntStr(q \div UnitsPerKm) \o "." \o
    (CASE q % UnitsPerKm = 0 -> "0"
       [] q % UnitsPerKm = 1 -> "2"
       [] q % UnitsPerKm = 2 -> "5"
       [] q % UnitsPerKm = 3 -> "8")

(* ------------------------ directory-service data ----------------------- *)

Titles == {"Alpha Plaza"}

LevelTitles == {"Fast DC", "Ultra-Fast", "fast AC"}

\* 3.0, 4.75, 5.0, 9.75 and 10.0 km
Distances == {12, 19, 20, 39, 40}

Levels == {[ID |-> 3] @@ t : t \in Optional("Title", LevelTitles)}

Connections == {[ID |-> 25] @@ l : l \in Optional("Level", Levels)}

RECURSIVE SeqsUpTo(_, _)
SeqsUpTo(S, n) ==
    IF n = 0 THEN {<<>>}
    ELSE LET shorter == SeqsUpTo(S, n - 1)
         IN  shorter \cup {Append(q, e) : q \in {r \in shorter : Len(r) = n - 1}, e \in S}

ConnectionLists == SeqsUpTo(Connections, MaxConnections)

AddressInfos ==
    {[ID |-> 1] @@ t @@ d :
        t \in Optional("Title", Titles), d \in Optional("Distance", Distances)}

StatusTypes == {[ID |-> 50] @@ o : o \in Optional("IsOperational", BOOLEAN)}

\* Every station record over the field values above, any key missing.
StationRecords ==
    {[ID |-> 100] @@ a @@ c @@ t :
        a \in Optional("AddressInfo", AddressInfos),
        c \in Optional("Connections", ConnectionLists),
        t \in Optional("StatusType", StatusTypes)}

FastConnection == [ID |-> 25, Level |-> [ID |-> 3, Title |-> "Fast DC"]]

SlowConnection == [ID |-> 25, Level |-> [ID |-> 2, Title |-> "Level 2 : Medium"]]

\* distance 3, one "Fast DC" connection, operational: 10 + 8 + 5
StationA ==
    [ID |-> 101,
     AddressInfo |-> [ID |-> 1, Title |-> "Depot A", Distance |-> 12],
     Connections |-> <<FastConnection>>,
     StatusType |-> [ID |-> 50, IsOperational |-> TRUE]]

\* distance 7, no connections, not operational: 5
StationB ==
    [ID |-> 102,
     AddressInfo |-> [ID |-> 1, Title |-> "Mall B", Distance |-> 28],
     Connections |-> <<>>,
     StatusType |-> [ID |-> 30, IsOperational |-> FALSE]]

\* no address info, no connections key, operational: 5
StationC ==
    [ID |-> 103,
     StatusType |-> [ID |-> 50, IsOperational |-> TRUE]]

\* no title, distance 4.75, three fast connections among four, no status: 10 + 24
StationD ==
    [ID |-> 104,
     AddressInfo |-> [ID |-> 1, Distance |-> 19],
     Connections |-> <<FastConnection, SlowConnection, FastConnection, FastConnection>>]

ListedStations == {StationA, StationB, StationC, StationD}

IsInjective(q) == \A i, j \in DOMAIN q : q[i] = q[j] => i = j

\* The bodies the directory service answers with: the listed stations, each
\* at most once, in any order, up to MaxStations of them.
Bodies == {b \in SeqsUpTo(ListedStations, MaxStations) : IsInjective(b)}

PreferredTypes == {"Fast", "Ultra", "Level 2"}

\* The station lists recommend_stations is called with on its own: every
\* one-station list, and every list of listed stations up to MaxStations long.
RankInputs == SeqsUpTo(ListedStations, MaxStations) \cup {<<s>> : s \in StationRecords}

(* ----------------------------- ranking --------------------------------- *)

station_distance(station) ==
    Get(Get(station, "AddressInfo", EmptyDict), "Distance", Km(DefaultDistanceKm))

\* a faulty variant: the thresholds are inclusive
distance_points_inclusive(distance) ==
    IF distance <= Km(NearKm) THEN 10
    ELSE IF distance <= Km(MidKm) THEN 5
    ELSE 0

distance_points(distance) ==
    IF distance < Km(NearKm) THEN 10
    ELSE IF distance < Km(MidKm) THEN 5
    ELSE 0

\* a faulty variant: the bonus follows the preferred type
connection_points_preferred(conn, preferred_type) ==
    LET level == Get(conn, "Level", EmptyDict)
    IN  IF DOMAIN level # {} /\ Contains(preferred_type, Get(level, "Title", ""))
        THEN 8 ELSE 0

\* 'Fast' in str(level.get('Title', '')), whatever preferred_type is
connection_points(conn, preferred_type) ==
    LET level == Get(conn, "Level", EmptyDict)
    IN  IF DOMAIN level # {} /\ Contains("Fast", Get(level, "Title", ""))
        THEN 8 ELSE 0

RECURSIVE connections_points(_, _)
connections_points(connections, preferred_type) ==
    IF connections = <<>> THEN 0
    ELSE connection_points(Head(connections), preferred_type)
         + connections_points(Tail(connections), preferred_type)

operational_points(station) ==
    LET status == Get(station, "StatusType", EmptyDict)
    IN  IF Get(status, "IsOperational", FALSE) THEN 5 ELSE 0

station_score(station, preferred_type) ==
    distance_points(station_distance(station))
    + connections_points(Get(station, "Connections", <<>>), preferred_type)
    + operational_points(station)

scored_station(station, preferred_type) ==
    [station |-> station,
     score |-> station_score(station, preferred_type),
     distance |-> station_distance(station)]

\* a faulty variant: equal scores end up in reverse input order
insert_unstable(sorted, x) ==
    LET k == Cardinality({i \in 1..Len(sorted) : sorted[i].score > x.score})
    IN  SubSeq(sorted, 1, k) \o <<x>> \o SubSeq(sorted, k + 1, Len(sorted))

\* Where x goes in a list sorted by descending score: after every entry that
\* scores at least as much (list.sort is stable, also with reverse=True).
insert_stable(sorted, x) ==
    LET k == Cardinality({i \in 1..Len(sorted) : sorted[i].score >= x.score})
    IN  SubSeq(sorted, 1, k) \o <<x>> \o SubSeq(sorted, k + 1, Len(sorted))

RECURSIVE sort_by_score(_)
sort_by_score(scored) ==
    IF scored = <<>> THEN <<>>
    ELSE insert_stable(sort_by_score(SubSeq(scored, 1, Len(scored) - 1)),
                       scored[Len(scored)])

\* Whether a lookup of the loop body raises on this station.
station_raises(station) ==
    \/ GetRaises(station, "AddressInfo")
    \/ GetRaises(Get(station, "AddressInfo", EmptyDict), "Distance")
    \/ GetRaises(station, "Connections")
    \/ \E i \in DOMAIN Get(station, "Connections", <<>>) :
          LET conn == Get(station, "Connections", <<>>)[i]
          IN  \/ GetRaises(conn, "Level")
              \/ GetRaises(Get(conn, "Level", EmptyDict), "Title")
    \/ GetRaises(station, "StatusType")
    \/ GetRaises(Get(station, "StatusType", EmptyDict), "IsOperational")

recommend_stations(stations, preferred_type) ==
    IF \E i \in DOMAIN stations : station_raises(stations[i])
    THEN [raised |-> TRUE, value |-> <<>>]
    ELSE [raised |-> FALSE,
          value |-> sort_by_score(
              [i \in DOMAIN stations |-> scored_station(stations[i], preferred_type)])]

(* ------------------------------ fetching ------------------------------- *)

Latitude == "37.7749"

Longitude == "-122.4194"

Radii == {10}

RequestTimeout == 10

MaxResults == 10

HttpResponse(status, json_ok, body) ==
    [kind |-> "http", status |-> status, json_ok |-> json_ok, body |-> body,
     error |-> ""]

TransportFailure(error) ==
    [kind |-> "exception", status |-> 0, json_ok |-> FALSE, body |-> <<>>,
     error |-> error]

\* What the directory service can answer: a list of stations with status 200,
\* a body that is not JSON with status 200, another status (whatever its
\* body), or no answer at all.
FetchResponses ==
    {HttpResponse(200, TRUE, b) : b \in Bodies}
    \cup {HttpResponse(200, FALSE, <<>>)}
    \cup {HttpResponse(s, TRUE, <<StationA>>) : s \in {404, 500}}
    \cup {TransportFailure(e) : e \in {"Read timed out.", "Connection refused"}}

fetch_request(latitude, longitude, distance) ==
    [kind |-> "GET",
     url |-> "https://api.openchargemap.io/v3/poi/",
     params |-> [latitude |-> latitude, longitude |-> longitude,
                 distance |-> distance, maxresults |-> MaxResults,
                 compact |-> TRUE, verbose |-> FALSE],
     timeout |-> RequestTimeout]

\* The body of the try block: requests.get, the status test, response.json().
fetch_try(resp) ==
    IF resp.kind = "exception"
    THEN [exc |-> TRUE, error |-> resp.error, value |-> <<>>]
    ELSE IF resp.status = 200
    THEN IF resp.json_ok
         THEN [exc |-> FALSE, error |-> "", value |-> resp.body]
         ELSE [exc |-> TRUE, error |-> "Expecting value: line 1 column 1 (char 0)",
               value |-> <<>>]
    ELSE [exc |-> FALSE, error |-> "", value |-> <<>>]

\* a faulty variant: only the request is guarded, the parse error escapes
get_charging_stations_unguarded_parse(latitude, longitude, distance, resp) ==
    LET t == fetch_try(resp)
    IN  [raised |-> t.exc /\ resp.kind = "http",
         value |-> IF t.exc THEN <<>> ELSE t.value,
         requests |-> <<fetch_request(latitude, longitude, distance)>>,
         notices |-> IF t.exc /\ resp.kind = "exception"
                     THEN <<"Error fetching stations: " \o t.error>> ELSE <<>>]

get_charging_stations(latitude, longitude, distance, resp) ==
    LET t == fetch_try(resp)
    IN  [raised |-> FALSE,
         value |-> IF t.exc THEN <<>> ELSE t.value,
         requests |-> <<fetch_request(latitude, longitude, distance)>>,
         notices |-> IF t.exc THEN <<"Error fetching stations: " \o t.error>>
                     ELSE <<>>]

(* ------------------------------ context -------------------------------- *)

TopN == 3

DisplayN == 5

has_recommendations(state) ==
    "recommendations" \in DOMAIN state /\ state["recommendations"] # <<>>

context_line(i, item) ==
    IntStr(i) \o ". "
    \o Get(Get(item.station, "AddressInfo", EmptyDict), "Title", "Unknown")
    \o " - " \o FormatDistance(item.distance) \o "km away\n"

RECURSIVE context_lines(_, _)
context_lines(top_stations, i) ==
    IF i > Len(top_stations) THEN ""
    ELSE context_line(i, top_stations[i]) \o context_lines(top_stations, i + 1)

\* a faulty variant: every ranked station is listed, not the first three
build_context_uncapped(state) ==
    IF has_recommendations(state)
    THEN "Top 3 recommended stations:\n" \o context_lines(state["recommendations"], 1)
    ELSE ""

build_context(state) ==
    IF has_recommendations(state)
    THEN LET recs == state["recommendations"]
             top_stations == SubSeq(recs, 1, Min(TopN, Len(recs)))
         IN  "Top 3 recommended stations:\n" \o context_lines(top_stations, 1)
    ELSE ""

\* The expander titles of the "Recommended Stations" section.
displayed_stations(state) ==
    IF has_recommendations(state)
    THEN LET recs == state["recommendations"]
         IN  [i \in 1..Min(DisplayN, Len(recs)) |->
                 "#" \o IntStr(i) \o " - "
                 \o Get(Get(recs[i].station, "AddressInfo", EmptyDict),
                        "Title", "Unknown Station")
                 \o " (" \o FormatDistance(recs[i].distance) \o " km)"]
    ELSE <<>>

(* -------------------------------- chat --------------------------------- *)

MaxTokens == 500

SystemInstruction ==
    "You are an EV Charging Assistant. Help users find charging stations and answer EV-related questions.\n        \nBe friendly, concise, and helpful. If station data is provided, reference it naturally.\n\nContext: "

Prompts == {"What is CCS?", "Where can I charge?"}

\* What the completion endpoint can do: answer, fail in transport, or answer
\* with no choice in the reply.
Completions ==
    {[kind |-> "ok", content |-> "CCS is a fast-charging plug standard.", error |-> ""],
     [kind |-> "exception", content |-> "", error |-> "Connection error."],
     [kind |-> "no_choice", content |-> "", error |-> "list index out of range"]}

\* a faulty variant: the transcript so far is sent along
chat_request_with_history(user_message, context) ==
    [kind |-> "chat",
     model |-> "gpt-3.5-turbo",
     messages |-> <<[role |-> "system", content |-> SystemInstruction \o context]>>
                  \o session_state["messages"]
                  \o <<[role |-> "user", content |-> user_message]>>,
     max_tokens |-> MaxTokens,
     temperature |-> "0.7"]

chat_request(user_message, context) ==
    [kind |-> "chat",
     model |-> "gpt-3.5-turbo",
     messages |-> <<[role |-> "system", content |-> SystemInstruction \o context],
                    [role |-> "user", content |-> user_message]>>,
     max_tokens |-> MaxTokens,
     temperature |-> "0.7"]

\* The body of the try block: the create call and response.choices[0].
chat_try(completion) ==
    IF completion.kind = "ok"
    THEN [exc |-> FALSE, error |-> "", value |-> completion.content]
    ELSE [exc |-> TRUE, error |-> completion.error, value |-> ""]

\* a faulty variant: only the call is guarded, the IndexError on choices[0] escapes
chat_with_openai_unguarded_choice(user_message, context, completion) ==
    LET t == chat_try(completion)
    IN  [raised |-> completion.kind = "no_choice",
         value |-> IF t.exc THEN "Sorry, I encountered an error: " \o t.error
                   ELSE t.value,
         requests |-> <<chat_request(user_message, context)>>]

chat_with_openai(user_message, context, completion) ==
    LET t == chat_try(completion)
    IN  [raised |-> FALSE,
         value |-> IF t.exc THEN "Sorry, I encountered an error: " \o t.error
                   ELSE t.value,
         requests |-> <<chat_request(user_message, context)>>]

(* ----------------------------- session --------------------------------- *)

\* a faulty variant: results are stored only when something was found
store_search_if_found(state, stations, recs) ==
    IF stations = <<>> THEN state
    ELSE ("stations" :> stations) @@ ("recommendations" :> recs) @@ state

\* session_state['stations'] = ...; session_state['recommendations'] = ...
store_search(state, stations, recs) ==
    ("stations" :> stations) @@ ("recommendations" :> recs) @@ state

\* a faulty variant: the transcript is reset to the latest turn
append_message_reset(state, role, content) ==
    ("messages" :> <<[role |-> role, content |-> content]>>) @@ state

\* session_state.messages.append({"role": ..., "content": ...})
append_message(state, role, content) ==
    ("messages" :> Append(state["messages"], [role |-> role, content |-> content]))
    @@ state

Init ==
    /\ session_state = [messages |-> <<>>]
    /\ action = "none"
    /\ response = TransportFailure("")
    /\ requests = <<>>
    /\ notices = <<>>
    /\ returned = <<>>
    /\ raised = FALSE
    /\ call = [stations |-> <<>>, preferred_type |-> "Fast"]
    /\ chats = 0

\* The "Find Stations" button.
Search ==
    \E distance \in Radii, resp \in FetchResponses :
        LET f == get_charging_stations(Latitude, Longitude, distance, resp)
            r == recommend_stations(f.value, "Fast")
        IN  /\ session_state' =
                   IF f.raised THEN session_state
                   ELSE IF r.raised THEN ("stations" :> f.value) @@ session_state
                   ELSE store_search(session_state, f.value, r.value)
            /\ action' = "search"
            /\ response' = resp
            /\ requests' = f.requests
            /\ notices' = f.notices
            /\ returned' = f.value
            /\ raised' = (f.raised \/ r.raised)
            /\ UNCHANGED <<call, chats>>

\* A message typed into the chat input.
Chat ==
    \E prompt \in Prompts, completion \in Completions :
        LET asked == append_message(session_state, "user", prompt)
            context == build_context(asked)
            c == chat_with_openai(prompt, context, completion)
        IN  /\ chats < MaxChats
            /\ chats' = chats + 1
            /\ session_state' =
                   IF c.raised THEN asked
                   ELSE append_message(asked, "assistant", c.value)
            /\ action' = "chat"
            /\ response' = completion
            /\ requests' = c.requests
            /\ notices' = <<>>
            /\ returned' = c.value
            /\ raised' = c.raised
            /\ UNCHANGED call

Next == Search \/ Chat

Spec == Init /\ [][Next]_vars

(* --------------------- recommend_stations on its own ------------------- *)

RankInit ==
    /\ session_state = [messages |-> <<>>]
    /\ action = "none"
    /\ response = TransportFailure("")
    /\ requests = <<>>
    /\ notices = <<>>
    /\ returned = <<>>
    /\ raised = FALSE
    /\ call \in [stations : RankInputs, preferred_type : PreferredTypes]
    /\ chats = 0

Rank ==
    LET r == recommend_stations(call.stations, call.preferred_type)
    IN  /\ action = "none"
        /\ action' = "rank"
        /\ returned' = r.value
        /\ raised' = r.raised
        /\ UNCHANGED <<session_state, response, requests, notices, call, chats>>

RankNext == Rank

RankSpec == RankInit /\ [][RankNext]_vars

(* ======================= properties of the ranking ===================== *)

\* The score the scoring rule assigns, read off the station record alone.
DistancePresent(s) ==
    "AddressInfo" \in DOMAIN s /\ "Distance" \in DOMAIN s["AddressInfo"]

ExpectedDistancePoints(s) ==
    IF DistancePresent(s) /\ s["AddressInfo"]["Distance"] < 5 * UnitsPerKm THEN 10
    ELSE IF DistancePresent(s) /\ s["AddressInfo"]["Distance"] < 10 * UnitsPerKm THEN 5
    ELSE 0

IsFastConnection(c) ==
    /\ "Level" \in DOMAIN c
    /\ "Title" \in DOMAIN c["Level"]
    /\ Contains("Fast", c["Level"]["Title"])

ExpectedFastCount(s) ==
    IF "Connections" \in DOMAIN s
    THEN Cardinality({i \in DOMAIN s["Connections"] : IsFastConnection(s["Connections"][i])})
    ELSE 0

IsOperational(s) ==
    /\ "StatusType" \in DOMAIN s
    /\ "IsOperational" \in DOMAIN s["StatusType"]
    /\ s["StatusType"]["IsOperational"] = TRUE

ExpectedScore(s) ==
    ExpectedDistancePoints(s) + 8 * ExpectedFastCount(s)
    + (IF IsOperational(s) THEN 5 ELSE 0)

Ranked == action = "rank"

\* C1: every station is scored distance points (10 below 5 km, 5 from 5 to
\* below 10 km, 0 from 10 km on or without a distance) plus 8 for each
\* connection whose level title contains "Fast", uncapped, plus 5 if it is
\* operational; station A scores 23 and station B scores 5.
C1_ScoreRule ==
    Ranked =>
        /\ Len(returned) = Len(call.stations)
        /\ \A i \in DOMAIN returned :
              /\ returned[i].score = ExpectedScore(returned[i].station)
              /\ returned[i].station = StationA => returned[i].score = 23
              /\ returned[i].station = StationB => returned[i].score = 5

C1_Witness ==
    /\ Ranked
    /\ \E i, j, k \in DOMAIN returned :
          /\ returned[i].station = StationA /\ returned[i].score = 23
          /\ returned[j].station = StationB /\ returned[j].score = 5
          /\ returned[k].station = StationD /\ returned[k].score = 34

StationsOf(ranked) == [i \in DOMAIN ranked |-> ranked[i].station]

EntriesScoring(ranked, v) ==
    LET Scores(e) == e.score = v
    IN  StationsOf(SelectSeq(ranked, Scores))

StationsScoring(stations, v) ==
    LET Scores(st) == ExpectedScore(st) = v
    IN  SelectSeq(stations, Scores)

\* C2: the ranked list holds each input station exactly once, by descending
\* score, stations of equal score in their input order.
C2_StableDescending ==
    Ranked =>
        /\ Len(returned) = Len(call.stations)
        /\ \A i, j \in DOMAIN returned :
              i < j => returned[i].score >= returned[j].score
        /\ \A v \in {returned[i].score : i \in DOMAIN returned}
                    \cup {ExpectedScore(call.stations[i]) : i \in DOMAIN call.stations} :
              EntriesScoring(returned, v) = StationsScoring(call.stations, v)

C2_Witness ==
    /\ Ranked
    /\ call.stations = <<StationC, StationA, StationB, StationD>>
    /\ StationsOf(returned) = <<StationD, StationA, StationC, StationB>>

Without(d, k) == [x \in DOMAIN d \ {k} |-> d[x]]

WithKey(d, k, v) == (k :> v) @@ d

\* The records obtained from s by dropping one key, at any level.
Removals(s) ==
    {Without(s, k) : k \in DOMAIN s \ {"ID"}}
    \cup (IF "AddressInfo" \in DOMAIN s
          THEN {WithKey(s, "AddressInfo", Without(s["AddressInfo"], k)) :
                    k \in DOMAIN s["AddressInfo"] \ {"ID"}}
          ELSE {})
    \cup (IF "StatusType" \in DOMAIN s
          THEN {WithKey(s, "StatusType", Without(s["StatusType"], k)) :
                    k \in DOMAIN s["StatusType"] \ {"ID"}}
          ELSE {})
    \cup (IF "Connections" \in DOMAIN s
          THEN {WithKey(s, "Connections",
                    [s["Connections"] EXCEPT ![i] = Without(@, "Level")]) :
                    i \in {j \in DOMAIN s["Connections"] :
                              "Level" \in DOMAIN s["Connections"][j]}}
               \cup
               {WithKey(s, "Connections",
                    [s["Connections"] EXCEPT ![i] =
                        WithKey(@, "Level", Without(@["Level"], "Title"))]) :
                    i \in {j \in DOMAIN s["Connections"] :
                              /\ "Level" \in DOMAIN s["Connections"][j]
                              /\ "Title" \in DOMAIN s["Connections"][j]["Level"]}}
          ELSE {})

\* s with the defaults written out where a key is missing.
WithDefaults(s) ==
    LET addr == IF "AddressInfo" \in DOMAIN s THEN s["AddressInfo"] ELSE [ID |-> 1]
        status == IF "StatusType" \in DOMAIN s THEN s["StatusType"] ELSE [ID |-> 50]
    IN  WithKey(WithKey(WithKey(s,
            "AddressInfo",
                IF "Distance" \in DOMAIN addr THEN addr
                ELSE WithKey(addr, "Distance", 999 * UnitsPerKm)),
            "Connections",
                IF "Connections" \in DOMAIN s THEN s["Connections"] ELSE <<>>),
            "StatusType",
                IF "IsOperational" \in DOMAIN status THEN status
                ELSE WithKey(status, "IsOperational", FALSE))

\* C3: whatever keys a station record lacks, recommend_stations raises
\* nothing and returns an entry for it, scored as if distance 999, no
\* connections and a false operational flag stood in for what is missing;
\* dropping a key never raises the score.
C3_MissingKeysTolerated ==
    Ranked =>
        /\ raised = FALSE
        /\ Len(returned) = Len(call.stations)
        /\ \A i \in DOMAIN returned :
              LET s == returned[i].station
              IN  /\ \E j \in DOMAIN call.stations : call.stations[j] = s
                  /\ returned[i].distance = WithDefaults(s)["AddressInfo"]["Distance"]
                  /\ ~DistancePresent(s) => returned[i].distance = 999 * UnitsPerKm
                  /\ returned[i].score = ExpectedScore(WithDefaults(s))
                  /\ \A less \in Removals(s) : ExpectedScore(less) <= returned[i].score

C3_Witness ==
    /\ Ranked
    /\ call.stations = <<[ID |-> 100]>>
    /\ raised = FALSE
    /\ returned = <<[station |-> [ID |-> 100], score |-> 0, distance |-> 999 * UnitsPerKm]>>

\* C9: the preferred type does not change the result: whatever value is
\* passed, the scores are those of the "Fast" rule and the ranked list is the
\* one every other value gives.
C9_PreferredTypeIgnored ==
    Ranked =>
        /\ \A i \in DOMAIN returned :
              returned[i].score = ExpectedScore(returned[i].station)
        /\ \A p \in PreferredTypes :
              recommend_stations(call.stations, p).value = returned

C9_Witness ==
    /\ Ranked
    /\ call.preferred_type = "Level 2"
    /\ call.stations = <<StationD, StationA>>
    /\ returned[1].station = StationD
    /\ returned[1].score = 34

(* ======================= properties of the session ===================== *)

Messages == session_state["messages"]

Recommendations == Get(session_state, "recommendations", <<>>)

Searched == action = "search"

Chatted == action = "chat"

FirstBreak(text) ==
    LET breaks == {i \in 1..Len(text) : SubSeq(text, i, i) = "\n"}
    IN  IF breaks = {} THEN 0
        ELSE CHOOSE i \in breaks : \A j \in breaks : i <= j

\* text.splitlines()
RECURSIVE SplitLines(_)
SplitLines(text) ==
    IF text = "" THEN <<>>
    ELSE LET k == FirstBreak(text)
         IN  IF k = 0 THEN <<text>>
             ELSE <<SubSeq(text, 1, k - 1)>> \o SplitLines(SubSeq(text, k + 1, Len(text)))

TitleOrUnknown(s) ==
    IF "AddressInfo" \in DOMAIN s /\ "Title" \in DOMAIN s["AddressInfo"]
    THEN s["AddressInfo"]["Title"] ELSE "Unknown"

\* "<i>. <title> - <distance>km away" for the first min(3, length) entries
ExpectedStationLines(recs) ==
    [i \in 1..Min(3, Len(recs)) |->
        IntStr(i) \o ". " \o TitleOrUnknown(recs[i].station) \o " - "
        \o FormatDistance(recs[i].distance) \o "km away"]

\* C4 as stated: a non-empty ranked list gives exactly min(3, length) lines,
\* each of the form "<i>. <title> - <distance>km away".
C4_OnlyStationLines ==
    /\ Recommendations = <<>> => build_context(session_state) = ""
    /\ Recommendations # <<>> =>
          SplitLines(build_context(session_state)) = ExpectedStationLines(Recommendations)

\* C4 amended: the context is empty when the ranked list is empty; otherwise
\* it is the heading line "Top 3 recommended stations:" followed by exactly
\* min(3, length) station lines, numbered from 1 in ranked order, the title
\* defaulting to "Unknown" and the distance printed with one decimal; that
\* text is what a chat message puts after "Context: " in the system message.
C4_HeadingThenStationLines ==
    /\ Recommendations = <<>> => build_context(session_state) = ""
    /\ Recommendations # <<>> =>
          SplitLines(build_context(session_state)) =
              <<"Top 3 recommended stations:">> \o ExpectedStationLines(Recommendations)
    /\ Chatted =>
          LET content == requests[1].messages[1].content
          IN  /\ StartsWith(content, SystemInstruction)
              /\ SplitLines(SubSeq(content, Len(SystemInstruction) + 1, Len(content))) =
                     (IF Recommendations = <<>> THEN <<>>
                      ELSE <<"Top 3 recommended stations:">>
                           \o ExpectedStationLines(Recommendations))

C4_Witness ==
    /\ Chatted
    /\ Len(Recommendations) = 4
    /\ StationsOf(Recommendations) = <<StationD, StationA, StationC, StationB>>
    /\ SplitLines(build_context(session_state)) =
          <<"Top 3 recommended stations:",
            "1. Unknown - 4.8km away",
            "2. Depot A - 3.0km away",
            "3. Unknown - 999.0km away">>

FetchFailed ==
    response.kind = "exception" \/ response.status # 200 \/ ~response.json_ok

\* C5: one request per call and nothing raised; the parsed body on status
\* 200, an empty list on any other status, and an empty list with an error
\* notice when the request or the parsing fails.
C5_FetchNeverRaises ==
    Searched =>
        /\ raised = FALSE
        /\ Len(requests) = 1
        /\ requests[1].kind = "GET"
        /\ (response.kind = "http" /\ response.status = 200 /\ response.json_ok)
              => returned = response.body
        /\ (response.kind = "http" /\ response.status # 200)
              => returned = <<>>
        /\ (response.kind = "exception"
              \/ (response.kind = "http" /\ response.status = 200 /\ ~response.json_ok))
              => /\ returned = <<>>
                 /\ Len(notices) = 1
                 /\ StartsWith(notices[1], "Error fetching stations: ")

C5_Witness ==
    /\ Searched
    /\ response.kind = "http" /\ response.status = 200 /\ ~response.json_ok
    /\ returned = <<>>
    /\ notices = <<"Error fetching stations: Expecting value: line 1 column 1 (char 0)">>
    /\ raised = FALSE

\* C6: the chat call raises nothing and is made once; when the completion
\* fails the result begins with "Sorry, I encountered an error:", and
\* whatever the result is, it is the transcript's last entry, as an assistant
\* message.
C6_ChatNeverRaises ==
    Chatted =>
        /\ raised = FALSE
        /\ Len(requests) = 1
        /\ requests[1].kind = "chat"
        /\ response.kind # "ok" =>
              StartsWith(returned, "Sorry, I encountered an error:")
        /\ response.kind = "ok" => returned = response.content
        /\ Messages # <<>>
        /\ Messages[Len(Messages)] = [role |-> "assistant", content |-> returned]

C6_Witness ==
    /\ Chatted
    /\ response.kind = "no_choice"
    /\ raised = FALSE
    /\ Messages[Len(Messages)] =
          [role |-> "assistant",
           content |-> "Sorry, I encountered an error: list index out of range"]

\* C7: a search whose fetch fails leaves both stored lists empty, shows no
\* station, and the chat message that follows it is sent with an empty
\* context.
C7_FailedSearchClearsResults ==
    /\ [](Searched /\ FetchFailed =>
            /\ "stations" \in DOMAIN session_state
            /\ session_state["stations"] = <<>>
            /\ "recommendations" \in DOMAIN session_state
            /\ session_state["recommendations"] = <<>>
            /\ displayed_stations(session_state) = <<>>
            /\ build_context(session_state) = "")
    /\ [][(Searched /\ FetchFailed /\ action' = "chat") =>
            requests'[1].messages[1].content = SystemInstruction]_vars

C7_Witness ==
    /\ Searched
    /\ FetchFailed
    /\ response.status = 500
    /\ chats = 1
    /\ session_state["stations"] = <<>>
    /\ session_state["recommendations"] = <<>>
    /\ displayed_stations(session_state) = <<>>

\* C8: a chat request holds exactly two messages, the system message made of
\* the fixed instruction and the context of the stored ranked list, then the
\* user message with the current text; the whole request is determined by
\* the current text and the ranked list, whatever the transcript holds.
C8_RequestIgnoresTranscript ==
    Chatted =>
        /\ Len(requests) = 1
        /\ Len(Messages) >= 2
        /\ requests[1] =
              [kind |-> "chat",
               model |-> "gpt-3.5-turbo",
               messages |->
                   <<[role |-> "system",
                      content |-> SystemInstruction \o build_context(session_state)],
                     [role |-> "user",
                      content |-> Messages[Len(Messages) - 1].content]>>,
               max_tokens |-> 500,
               temperature |-> "0.7"]

C8_Witness ==
    /\ Chatted
    /\ Len(Messages) = 4
    /\ Messages[1].content = Messages[3].content
    /\ Messages[2].content # Messages[4].content
    /\ Recommendations # <<>>
    /\ Len(requests[1].messages) = 2

IsPrefix(p, q) == Len(p) <= Len(q) /\ SubSeq(q, 1, Len(p)) = p

\* C10: the transcript only grows: a chat step appends the user's message
\* and then the reply, a search step leaves it as it is, roles alternate
\* from "user", and the length is twice the number of chat messages handled.
C10_TranscriptAppendOnly ==
    /\ [](/\ Len(Messages) = 2 * chats
          /\ \A i \in DOMAIN Messages :
                Messages[i].role = (IF i % 2 = 1 THEN "user" ELSE "assistant"))
    /\ [][/\ IsPrefix(Messages, session_state'["messages"])
          /\ action' = "search" => session_state'["messages"] = Messages
          /\ action' = "chat" =>
                \E prompt \in Prompts :
                    session_state'["messages"] =
                        Messages \o <<[role |-> "user", content |-> prompt],
                                      [role |-> "assistant", content |-> returned']>>]_vars

C10_Witness ==
    /\ Searched
    /\ chats = 2
    /\ Len(Messages) = 4
    /\ Messages[1].role = "user" /\ Messages[2].role = "assistant"
    /\ Messages[3].role = "user" /\ Messages[4].role = "assistant"

====
